---- MODULE Spec2Model ----
(***************************************************************************)
(* Penrose coin geometry engine: PenroseTile / PenroseCoin (main.py) and   *)
(* the sun-motif composer get_penrose_coin_shapes (test_main.py).          *)
(*                                                                         *)
(* Floating-point coordinates are represented in fixed point: the integer  *)
(* n stands for n / Unit.  Angles are whole degrees, multiples of 9.       *)
(***************************************************************************)
EXTENDS Integers, Sequences, FiniteSets, TLC

VARIABLES
    heap,       \* TileParams objects by reference: ref -> [scale, margin, colours]
    tiles,      \* PenroseCoin.tiles: sequence of PenroseTile objects
    last_call,  \* history: the last completed mutating call on the coin
    pc,         \* position of the running get_vertices / plot call ("idle": none)
    cur,        \* index in tiles of the tile whose get_vertices is running
    vertices,   \* local `vertices` of the running get_vertices
    steps,      \* history: the transforms the running get_vertices has applied
    patches,    \* local result of the running plot: patches added, axis limit
    sun_pc,     \* position inside get_penrose_coin_shapes
    sun_sf,     \* its scale_factor argument
    sun_kites,  \* its locals first_tile .. fifth_tile
    sun_darts,  \* its locals first_dart .. fifth_dart
    sun_decagon,\* its local decagon
    shapes      \* its returned list

vars == <<heap, tiles, last_call, pc, cur, vertices, steps, patches,
          sun_pc, sun_sf, sun_kites, sun_darts, sun_decagon, shapes>>
coin_vars == <<heap, tiles, last_call, pc, cur, vertices, steps, patches>>
sun_vars == <<sun_pc, sun_sf, sun_kites, sun_darts, sun_decagon, shapes>>

----------------------------------------------------------------------------
(* Bounds and input sets *)

MaxTiles == 2

Unit == 1000

None == "None"

ScaleValues == {0 - Unit, 0, Unit, (12 * Unit) \div 10}
MarginValues == {0, (2 * Unit) \div 100, (3 * Unit) \div 100}
TileTypes == {"kite", "dart"}
CenterValues == {<<0, 0>>, <<0, Unit \div 2>>}
AngleValues == {0, 72}
SunScaleFactors == {0, Unit \div 4, Unit \div 2, (85 * Unit) \div 100, Unit, (12 * Unit) \div 10}

TileSpecs == TileTypes \X CenterValues \X AngleValues

RECURSIVE SeqsUpTo(_, _)
SeqsUpTo(S, n) ==
    IF n = 0 THEN {<<>>}
    ELSE LET shorter == SeqsUpTo(S, n - 1)
         IN  shorter \cup {Append(s, x) : s \in {t \in shorter : Len(t) = n - 1}, x \in S}

----------------------------------------------------------------------------
(* Fixed-point arithmetic and trigonometry *)

Abs(a) == IF a >= 0 THEN a ELSE 0 - a

\* a * b, rounded to nearest, symmetric about zero (as IEEE rounding is)
Mul(a, b) ==
    LET p == a * b
    IN  IF p >= 0 THEN (p + Unit \div 2) \div Unit
        ELSE 0 - ((Unit \div 2 - p) \div Unit)

\* a / b for b # 0, rounded to nearest, symmetric about zero
Div(a, b) ==
    LET n == Abs(a) * Unit
        d == Abs(b)
        q == (n + d \div 2) \div d
    IN  IF (a >= 0) = (b >= 0) THEN q ELSE 0 - q

\* sin of 0, 9, ..., 90 degrees
SinTable == <<0, 156, 309, 454, 588, 707, 809, 891, 951, 988, 1000>>

\* np.sin(np.radians(deg))
np_sin(deg) ==
    LET a == deg % 360
    IN  IF a <= 90 THEN SinTable[a \div 9 + 1]
        ELSE IF a <= 180 THEN SinTable[(180 - a) \div 9 + 1]
        ELSE IF a <= 270 THEN 0 - SinTable[(a - 180) \div 9 + 1]
        ELSE 0 - SinTable[(360 - a) \div 9 + 1]

\* np.cos(np.radians(deg))
np_cos(deg) == np_sin(deg + 90)

RECURSIVE SumX(_), SumY(_), MaxAbs(_)
SumX(vs) == IF vs = <<>> THEN 0 ELSE vs[1][1] + SumX(Tail(vs))
SumY(vs) == IF vs = <<>> THEN 0 ELSE vs[1][2] + SumY(Tail(vs))
MaxAbs(vs) ==
    IF vs = <<>> THEN 0
    ELSE LET m == MaxAbs(Tail(vs))
             a == IF Abs(vs[1][1]) >= Abs(vs[1][2]) THEN Abs(vs[1][1]) ELSE Abs(vs[1][2])
         IN  IF a >= m THEN a ELSE m

\* vertices.mean(axis=0)
SignedDivInt(a, n) == IF a >= 0 THEN (2 * a + n) \div (2 * n) ELSE 0 - ((n - 2 * a) \div (2 * n))
mean(vs) == <<SignedDivInt(SumX(vs), Len(vs)), SignedDivInt(SumY(vs), Len(vs))>>

----------------------------------------------------------------------------
(* PenroseTile.get_vertices, transform by transform *)

edge_length == Unit

\* the half-diagonals d1 (x axis) and d2 (y axis) of a rhombus of the given acute angle
half_diagonals(acute) ==
    <<Mul(edge_length, np_sin((180 - acute) \div 2)), Mul(edge_length, np_sin(acute \div 2))>>

tile_acute(tile_type) == IF tile_type = "kite" THEN 72 ELSE 36

\* the np.array literal: top, right, bottom, left
base_vertices(tile_type) ==
    LET d == half_diagonals(tile_acute(tile_type))
    IN  << <<0, d[2]>>, <<d[1], 0>>, <<0, 0 - d[2]>>, <<0 - d[1], 0>> >>

\* centroid + (vertices - centroid) * (1 - margin)
shrink(vs, margin) ==
    LET c == mean(vs)
    IN  [i \in 1..Len(vs) |->
            <<c[1] + Mul(vs[i][1] - c[1], Unit - margin),
              c[2] + Mul(vs[i][2] - c[2], Unit - margin)>>]

apply_margin(vs, margin) == IF margin > 0 THEN shrink(vs, margin) ELSE vs

\* vertices *= scale
scale_by(vs, s) == [i \in 1..Len(vs) |-> <<Mul(vs[i][1], s), Mul(vs[i][2], s)>>]

\* vertices @ rotation.T
rotate(vs, deg) ==
    LET c == np_cos(deg)
        s == np_sin(deg)
    IN  [i \in 1..Len(vs) |->
            <<Mul(vs[i][1], c) - Mul(vs[i][2], s),
              Mul(vs[i][1], s) + Mul(vs[i][2], c)>>]

translate_first(vs, center) ==
    [i \in 1..Len(vs) |->
        IF i = 1 THEN <<vs[i][1] + center[1], vs[i][2] + center[2]>> ELSE vs[i]]

\* vertices += center
translate(vs, center) ==
    [i \in 1..Len(vs) |-> <<vs[i][1] + center[1], vs[i][2] + center[2]>>]

\* the value get_vertices returns for a tile under a heap
get_vertices(t, h) ==
    translate(
        rotate(
            scale_by(
                apply_margin(base_vertices(t.tile_type), h[t.params].margin),
                h[t.params].scale),
            t.angle),
        t.center)

\* PenroseTile.get_polygon
get_polygon(t, h) ==
    [xy |-> get_vertices(t, h),
     facecolor |-> IF t.tile_type = "kite" THEN h[t.params].kite_color
                   ELSE h[t.params].dart_color]

----------------------------------------------------------------------------
(* PenroseCoin *)

\* the TileParams object the coin is constructed with
coin_params == 1

TileParamsObjects ==
    [scale : ScaleValues, margin : MarginValues,
     kite_color : {"#00FF00"}, dart_color : {"#FF0000"}]

\* PenroseTile.__init__
PenroseTile(tile_type, center, angle, params) ==
    [tile_type |-> tile_type, center |-> center, angle |-> angle, params |-> params]

\* the tile list after add_tile has been called for each spec in turn
RECURSIVE tiles_after_adds(_, _)
tiles_after_adds(ts, specs) ==
    IF specs = <<>> THEN ts
    ELSE tiles_after_adds(
             Append(ts, PenroseTile(specs[1][1], specs[1][2], specs[1][3], coin_params)),
             Tail(specs))

angle_step == 72

\* the calls create_radial_pattern makes: kites only, the dart loop is commented out
radial_specs == [i \in 1..5 |-> <<"kite", <<0, 0>>, (i - 1) * angle_step + 90>>]

radial_tiles == tiles_after_adds(<<>>, radial_specs)

pattern_tiles_no_reset(old, specs) == tiles_after_adds(old, specs)

\* self.tiles = [] followed by one add_tile per spec
pattern_tiles(old, specs) == tiles_after_adds(<<>>, specs)

Idle == pc = "idle"

call_locals_unchanged == UNCHANGED <<pc, cur, vertices, steps, patches>>

add_tile(tile_type, center, angle) ==
    /\ Idle
    /\ Len(tiles) < MaxTiles
    /\ tiles' = tiles_after_adds(tiles, << <<tile_type, center, angle>> >>)
    /\ last_call' = [op |-> "add_tile", args |-> <<tile_type, center, angle>>]
    /\ UNCHANGED heap
    /\ call_locals_unchanged
    /\ UNCHANGED sun_vars

create_radial_pattern ==
    /\ Idle
    /\ tiles' = radial_tiles
    /\ last_call' = [op |-> "create_radial_pattern", args |-> <<>>]
    /\ UNCHANGED heap
    /\ call_locals_unchanged
    /\ UNCHANGED sun_vars

create_pattern_from_spec(tile_specs) ==
    /\ Idle
    /\ tiles' = pattern_tiles(tiles, tile_specs)
    /\ last_call' = [op |-> "create_pattern_from_spec", args |-> tile_specs]
    /\ UNCHANGED heap
    /\ call_locals_unchanged
    /\ UNCHANGED sun_vars

\* params.scale = v on the (non-frozen) dataclass object the coin holds
set_scale(v) ==
    /\ Idle
    /\ heap[coin_params].scale # v
    /\ heap' = [heap EXCEPT ![coin_params].scale = v]
    /\ UNCHANGED <<tiles, last_call>>
    /\ call_locals_unchanged
    /\ UNCHANGED sun_vars

\* params.margin = v
set_margin(v) ==
    /\ Idle
    /\ heap[coin_params].margin # v
    /\ heap' = [heap EXCEPT ![coin_params].margin = v]
    /\ UNCHANGED <<tiles, last_call>>
    /\ call_locals_unchanged
    /\ UNCHANGED sun_vars

----------------------------------------------------------------------------
(* One call of get_vertices on a tile of the coin, statement by statement *)

gv_build(i) ==
    /\ Idle
    /\ i \in 1..Len(tiles)
    /\ pc' = "margin"
    /\ cur' = i
    /\ vertices' = base_vertices(tiles[i].tile_type)
    /\ steps' = <<>>
    /\ UNCHANGED <<heap, tiles, last_call, patches>>
    /\ UNCHANGED sun_vars

\* get_vertices is called on one of the coin's tiles
gv_call == \E i \in 1..Len(tiles) : gv_build(i)

gv_margin ==
    /\ pc = "margin"
    /\ pc' = "scale"
    /\ vertices' = apply_margin(vertices, heap[tiles[cur].params].margin)
    /\ steps' = IF heap[tiles[cur].params].margin > 0
                THEN Append(steps, "margin-shrink") ELSE steps
    /\ UNCHANGED <<heap, tiles, last_call, cur, patches>>
    /\ UNCHANGED sun_vars

gv_scale ==
    /\ pc = "scale"
    /\ pc' = "rotate"
    /\ vertices' = scale_by(vertices, heap[tiles[cur].params].scale)
    /\ steps' = Append(steps, "scale")
    /\ UNCHANGED <<heap, tiles, last_call, cur, patches>>
    /\ UNCHANGED sun_vars

gv_rotate ==
    /\ pc = "rotate"
    /\ pc' = "translate"
    /\ vertices' = rotate(vertices, tiles[cur].angle)
    /\ steps' = Append(steps, "initial-rotation")
    /\ UNCHANGED <<heap, tiles, last_call, cur, patches>>
    /\ UNCHANGED sun_vars

gv_translate_aliased ==
    /\ pc = "translate"
    /\ pc' = "return"
    /\ vertices' = translate(vertices, tiles[cur].center)
    /\ tiles' = [tiles EXCEPT ![cur].center = vertices'[1]]
    /\ steps' = Append(steps, "translate")
    /\ UNCHANGED <<heap, last_call, cur, patches>>
    /\ UNCHANGED sun_vars

gv_translate ==
    /\ pc = "translate"
    /\ pc' = "return"
    /\ vertices' = translate(vertices, tiles[cur].center)
    /\ steps' = Append(steps, "translate")
    /\ UNCHANGED <<heap, tiles, last_call, cur, patches>>
    /\ UNCHANGED sun_vars

gv_return ==
    /\ pc = "return"
    /\ pc' = "idle"
    /\ cur' = 0
    /\ vertices' = <<>>
    /\ steps' = <<>>
    /\ UNCHANGED <<heap, tiles, last_call, patches>>
    /\ UNCHANGED sun_vars

----------------------------------------------------------------------------
(* PenroseCoin.plot: the patches added to the axes and the axis limit *)

NoPatches == [polygons |-> <<>>, max_coord |-> None]

RECURSIVE all_vertices(_, _)
all_vertices(ts, h) ==
    IF ts = <<>> THEN <<>> ELSE get_vertices(ts[1], h) \o all_vertices(Tail(ts), h)

plot ==
    /\ Idle
    /\ pc' = "plot"
    /\ patches' =
         [polygons |-> [i \in 1..Len(tiles) |-> get_polygon(tiles[i], heap)],
          max_coord |-> IF tiles = <<>> THEN None
                        ELSE Mul(MaxAbs(all_vertices(tiles, heap)), (12 * Unit) \div 10)]
    /\ UNCHANGED <<heap, tiles, last_call, cur, vertices, steps>>
    /\ UNCHANGED sun_vars

plot_return ==
    /\ pc = "plot"
    /\ pc' = "idle"
    /\ patches' = NoPatches
    /\ UNCHANGED <<heap, tiles, last_call, cur, vertices, steps>>
    /\ UNCHANGED sun_vars

----------------------------------------------------------------------------
(* get_rhombus_vertices and get_decagon_vertices: imported by test_main.py *)

InvalidGeometry == "InvalidGeometry"

\* whether the request is rejected with InvalidGeometry
rhombus_invalid(acute, scale_factor) ==
    acute <= 0 \/ acute >= 180 \/ scale_factor <= 0

\* right, top, left, bottom; scale, initial rotation, translation, final rotation
get_rhombus_vertices(translation, rotation, acute, scale_factor, initial_rotation) ==
    LET d1 == np_cos(acute \div 2)
        d2 == np_sin(acute \div 2)
        canonical == << <<d1, 0>>, <<0, d2>>, <<0 - d1, 0>>, <<0, 0 - d2>> >>
    IN  IF rhombus_invalid(acute, scale_factor)
        THEN [raised |-> InvalidGeometry, value |-> <<>>]
        ELSE [raised |-> None,
              value |-> rotate(
                            translate(
                                rotate(scale_by(canonical, scale_factor), initial_rotation),
                                translation),
                            rotation)]

\* 10 points 36 degrees apart starting at 90 degrees, scaled, then translated
get_decagon_vertices(center, scale_factor) ==
    [k \in 1..10 |->
        <<Mul(np_cos(90 + 36 * (k - 1)), scale_factor) + center[1],
          Mul(np_sin(90 + 36 * (k - 1)), scale_factor) + center[2]>>]

----------------------------------------------------------------------------
(* get_penrose_coin_shapes *)

KITE_ACUTE_ANGLE == 72
KITE_OBTUSE_ANGLE == 180 - KITE_ACUTE_ANGLE
DART_ACUTE_ANGLE == 36

calculate_edge_length_of_unit_height_rhombus(acute_angle) ==
    Div(Unit \div 2, np_cos(acute_angle \div 2))

sun_edge_length == calculate_edge_length_of_unit_height_rhombus(KITE_ACUTE_ANGLE)
dart_long_length == Mul(2 * sun_edge_length, np_cos(DART_ACUTE_ANGLE \div 2))
dart_sf(scale_factor) == Mul(dart_long_length, scale_factor)
half_width_dart == Mul(sun_edge_length, np_sin(DART_ACUTE_ANGLE \div 2))
dart_center == sun_edge_length + half_width_dart

\* the rotation argument of the n-th kite call, n = 1..5
kite_rotation(n) == (n - 1) * 72

dart_rotation_unshifted(n) == (n - 1) * 72

\* the rotation argument of the n-th dart call, n = 1..5
dart_rotation(n) == 36 + (n - 1) * 72

kite_call(n, scale_factor) ==
    get_rhombus_vertices(<<0, Unit \div 2>>, kite_rotation(n), KITE_OBTUSE_ANGLE,
                         scale_factor, 0)

dart_call(n, scale_factor) ==
    get_rhombus_vertices(<<0, dart_center>>, dart_rotation(n), 144,
                         dart_sf(scale_factor), 90)

\* the returned list: decagon background, kites, darts
return_list(decagon, kites, darts) == <<decagon>> \o kites \o darts

SunIdle == sun_pc \in {"idle", "raised"}

sun_call(scale_factor) ==
    /\ SunIdle
    /\ sun_pc' = "kites"
    /\ sun_sf' = scale_factor
    /\ sun_kites' = <<>>
    /\ sun_darts' = <<>>
    /\ sun_decagon' = <<>>
    /\ UNCHANGED shapes
    /\ UNCHANGED coin_vars

sun_raise ==
    /\ sun_pc' = "raised"
    /\ sun_kites' = <<>>
    /\ sun_darts' = <<>>
    /\ sun_decagon' = <<>>
    /\ UNCHANGED <<sun_sf, shapes>>

sun_kite ==
    /\ sun_pc = "kites"
    /\ LET v == kite_call(Len(sun_kites) + 1, sun_sf)
       IN  IF v.raised = InvalidGeometry THEN sun_raise
           ELSE /\ sun_kites' = Append(sun_kites, v.value)
                /\ sun_pc' = IF Len(sun_kites) + 1 = 5 THEN "darts" ELSE "kites"
                /\ UNCHANGED <<sun_sf, sun_darts, sun_decagon, shapes>>
    /\ UNCHANGED coin_vars

sun_dart ==
    /\ sun_pc = "darts"
    /\ LET v == dart_call(Len(sun_darts) + 1, sun_sf)
       IN  IF v.raised = InvalidGeometry THEN sun_raise
           ELSE /\ sun_darts' = Append(sun_darts, v.value)
                /\ sun_pc' = IF Len(sun_darts) + 1 = 5 THEN "decagon" ELSE "darts"
                /\ UNCHANGED <<sun_sf, sun_kites, sun_decagon, shapes>>
    /\ UNCHANGED coin_vars

sun_decagon_call ==
    /\ sun_pc = "decagon"
    /\ sun_decagon' = get_decagon_vertices(<<0, 0>>, Unit)
    /\ sun_pc' = "return"
    /\ UNCHANGED <<sun_sf, sun_kites, sun_darts, shapes>>
    /\ UNCHANGED coin_vars

sun_return ==
    /\ sun_pc = "return"
    /\ shapes' = return_list(sun_decagon, sun_kites, sun_darts)
    /\ sun_pc' = "idle"
    /\ sun_kites' = <<>>
    /\ sun_darts' = <<>>
    /\ sun_decagon' = <<>>
    /\ UNCHANGED sun_sf
    /\ UNCHANGED coin_vars

----------------------------------------------------------------------------
(* Specifications *)

InitCoin ==
    /\ heap \in [{coin_params} -> TileParamsObjects]
    /\ tiles = <<>>
    /\ last_call = [op |-> "__init__", args |-> <<>>]
    /\ pc = "idle"
    /\ cur = 0
    /\ vertices = <<>>
    /\ steps = <<>>
    /\ patches = NoPatches

InitSun ==
    /\ sun_pc = "idle"
    /\ sun_sf = 0
    /\ sun_kites = <<>>
    /\ sun_darts = <<>>
    /\ sun_decagon = <<>>
    /\ shapes = <<>>

Init == InitCoin /\ InitSun

Next ==
    \/ \E s \in TileSpecs : add_tile(s[1], s[2], s[3])
    \/ create_radial_pattern
    \/ \E specs \in SeqsUpTo(TileSpecs, MaxTiles) : create_pattern_from_spec(specs)
    \/ \E v \in ScaleValues : set_scale(v)
    \/ \E v \in MarginValues : set_margin(v)
    \/ gv_call
    \/ gv_margin
    \/ gv_scale
    \/ gv_rotate
    \/ gv_translate
    \/ gv_return
    \/ plot
    \/ plot_return

Spec == Init /\ [][Next]_vars

InitSunOnly ==
    /\ heap = [r \in {coin_params} |->
                  [scale |-> Unit, margin |-> (2 * Unit) \div 100,
                   kite_color |-> "#00FF00", dart_color |-> "#FF0000"]]
    /\ tiles = <<>>
    /\ last_call = [op |-> "__init__", args |-> <<>>]
    /\ pc = "idle"
    /\ cur = 0
    /\ vertices = <<>>
    /\ steps = <<>>
    /\ patches = NoPatches
    /\ InitSun

NextSun ==
    \/ \E sf \in SunScaleFactors : sun_call(sf)
    \/ sun_kite
    \/ sun_dart
    \/ sun_decagon_call
    \/ sun_return

SpecSun == InitSunOnly /\ [][NextSun]_vars

----------------------------------------------------------------------------
(* Properties *)

scale_of(i) == heap[tiles[i].params].scale
margin_of(i) == heap[tiles[i].params].margin

\* the coin's TileParams describe a proper placement: positive scale, margin in [0, 1)
ValidParams(h) ==
    /\ h[coin_params].scale > 0
    /\ h[coin_params].margin >= 0
    /\ h[coin_params].margin < Unit

\* C1: when get_vertices returns, the transforms it applied are exactly
\* margin-shrink, scale, initial rotation, translation, final rotation about
\* the global origin, in that order, none skipped or repeated.
C1_TransformOrder ==
    (pc = "return" /\ ValidParams(heap) /\ margin_of(cur) > 0) =>
        steps = <<"margin-shrink", "scale", "initial-rotation", "translate", "final-rotation">>

\* C2: before any transform is applied, the four vertices of a kite or dart
\* are right (d1,0), top (0,d2), left (-d1,0), bottom (0,-d2), with d1, d2 > 0.
C2_CanonicalOrder ==
    (pc = "margin" /\ ValidParams(heap)) =>
        LET d1 == vertices[1][1]
            d2 == vertices[2][2]
        IN  /\ d1 > 0
            /\ d2 > 0
            /\ vertices = << <<d1, 0>>, <<0, d2>>, <<0 - d1, 0>>, <<0, 0 - d2>> >>

C4_CentroidIsCenter ==
    (pc = "return" /\ scale_of(cur) > 0) =>
        /\ Len(vertices) = 4
        /\ mean(vertices) = tiles[cur].center

C4_Witness ==
    /\ pc = "return"
    /\ scale_of(cur) > Unit
    /\ margin_of(cur) > 0
    /\ tiles[cur].tile_type = "dart"
    /\ tiles[cur].angle = 72
    /\ tiles[cur].center = <<0, Unit \div 2>>

\* C5: a request with a scale factor <= 0 never ends in a returned polygon.
C5_InvalidScaleNeverReturns ==
    pc = "return" => scale_of(cur) > 0

\* C6: no step changes the vertices that a tile already in the coin yields.
C6_TilesUnaffected ==
    [][\A i \in 1..Len(tiles) :
          (/\ ValidParams(heap)
           /\ ValidParams(heap')
           /\ i <= Len(tiles')
           /\ tiles'[i] = tiles[i]) =>
              get_vertices(tiles'[i], heap') = get_vertices(tiles[i], heap)]_vars

\* C7: after create_radial_pattern every kite has one of its acute vertices
\* (the top and bottom entries of the vertex array) at the origin.
C7_KitesMeetAtCenter ==
    (last_call.op = "create_radial_pattern" /\ ValidParams(heap)) =>
        \A i \in 1..Len(tiles) :
            tiles[i].tile_type = "kite" =>
                \E k \in {1, 3} : get_vertices(tiles[i], heap)[k] = <<0, 0>>

\* C8: after create_radial_pattern the coin holds exactly 10 tiles, 5 kites
\* followed by 5 darts, all centered at (0,0), the kites at 90 + i*72 degrees.
C8_RadialTenTiles ==
    (last_call.op = "create_radial_pattern" /\ ValidParams(heap)) =>
        /\ Len(tiles) = 10
        /\ \A i \in 1..5 :
              /\ tiles[i].tile_type = "kite"
              /\ tiles[i].angle = 90 + (i - 1) * 72
        /\ \A i \in 6..10 : tiles[i].tile_type = "dart"
        /\ \A i \in 1..10 : tiles[i].center = <<0, 0>>

\* C9: after create_pattern_from_spec(specs) the coin holds exactly len(specs)
\* tiles, the i-th with the type, center and angle of the i-th spec; nothing
\* held before the call remains.
C9_PatternFromSpec ==
    last_call.op = "create_pattern_from_spec" =>
        /\ Len(tiles) = Len(last_call.args)
        /\ \A i \in 1..Len(tiles) :
              /\ tiles[i].tile_type = last_call.args[i][1]
              /\ tiles[i].center = last_call.args[i][2]
              /\ tiles[i].angle = last_call.args[i][3]

C9_Witness ==
    /\ last_call.op = "create_pattern_from_spec"
    /\ Len(last_call.args) = 2
    /\ last_call.args[1] = <<"dart", <<0, Unit \div 2>>, 72>>
    /\ last_call.args[2] = <<"kite", <<0, 0>>, 0>>
    /\ Len(tiles) = 2

\* C10: every step of a get_vertices or plot call (its entry, each statement,
\* its return) leaves the coin's tile list and the TileParams objects unchanged.
C10_NoSideEffects ==
    [][(pc # "idle" \/ pc' # "idle") => (tiles' = tiles /\ heap' = heap)]_vars

C10_Witness ==
    /\ pc = "return"
    /\ cur = 2
    /\ tiles[cur].center # <<0, 0>>
    /\ steps = <<"margin-shrink", "scale", "initial-rotation", "translate">>

====
